---- MODULE Spec2Model ----
(***************************************************************************)
(* Key Points Maker (src/app.py): the text helpers, the heading            *)
(* classifier, transform_docx and the Streamlit upload handler.            *)
(*                                                                         *)
(* A Python str is modelled as a sequence of characters.  A character is   *)
(* a one-element TLA+ string for ASCII and a code-point name such as       *)
(* "<U+201D>" for the others.  str.lower(), str.upper(), str.isalpha() and *)
(* str.strip() follow Python's Unicode tables for the characters used.     *)
(***************************************************************************)
EXTENDS Integers, Sequences, FiniteSets, TLC

VARIABLES
    \* ---- text helpers called on their own (to_sentence_case, ensure_terminal_period)
    arg,              \* the argument of the current helper call
    arg_from,         \* "input", or the helper whose return value arg is
    call,             \* "none", or the helper that has just returned
    ret,              \* its return value
    \* ---- guess_heading_level called on its own
    style_name,       \* the style label passed in
    para_text,        \* the paragraph text passed in
    level,            \* -1 before the call, then the returned level 0..4
    \* ---- the upload handler and transform_docx
    uploaded,         \* the uploaded file: [name, paragraphs]
    add_period_to_h4, \* the checkbox
    pc,               \* position in the script
    i,                \* 1-based position of the paragraph loop
    out,              \* the output document's paragraphs
    counts,           \* dict(H2=, H3=, H4=, H5=)
    ui,               \* the Streamlit elements emitted, in order
    download,         \* <<>> or <<[file_name, data]>>: the download button
    \* ---- a second call of transform_docx on the same document, other flag
    alt               \* [i, out, counts]

vars == <<arg, arg_from, call, ret, style_name, para_text, level,
          uploaded, add_period_to_h4, pc, i, out, counts, ui, download, alt>>

textVars == <<arg, arg_from, call, ret>>
classifyVars == <<style_name, para_text, level>>
hostVars == <<uploaded, add_period_to_h4, pc, i, out, counts, ui, download>>

(***************************************************************************)
(* Bounds of the model.                                                    *)
(***************************************************************************)
MaxTextLen == 3
MaxParas == 3
MaxPrefixLen == 1

(***************************************************************************)
(* Characters.                                                             *)
(***************************************************************************)
NBSP == "<U+00A0>"       \* no-break space
CurlyDQ == "<U+201D>"    \* right double quotation mark
CurlySQ == "<U+2019>"    \* right single quotation mark
LigFi == "<U+FB01>"      \* latin small ligature fi
Eszett == "<U+00DF>"     \* latin small letter sharp s
LowQuote == "<U+201A>"   \* single low-9 quotation mark
AUmlaut == "<U+00C4>"    \* latin capital letter A with diaeresis
UGrave == "<U+00F9>"     \* latin small letter u with grave
OCirc == "<U+00F4>"      \* latin small letter o with circumflex

LowerLetters ==
    <<"a","b","c","d","e","f","g","h","i","j","k","l","m",
      "n","o","p","q","r","s","t","u","v","w","x","y","z">>
UpperLetters ==
    <<"A","B","C","D","E","F","G","H","I","J","K","L","M",
      "N","O","P","Q","R","S","T","U","V","W","X","Y","Z">>

Range(f) == {f[k] : k \in DOMAIN f}

AsciiLower == Range(LowerLetters)
AsciiUpper == Range(UpperLetters)

IndexOf(ch, letters) == CHOOSE k \in DOMAIN letters : letters[k] = ch

\* str.isalpha() of one character
IsAlpha(ch) == ch \in AsciiLower \cup AsciiUpper \cup {LigFi, Eszett}

\* str.isspace() of one character
IsSpace(ch) == ch \in {" ", "\t", "\n", NBSP}

\* str.lower() of one character: a string
LowerChar(ch) ==
    IF ch \in AsciiUpper THEN <<LowerLetters[IndexOf(ch, UpperLetters)]>>
    ELSE <<ch>>

\* str.upper() of one character: a string, of two characters for the
\* ligature and the sharp s
UpperChar(ch) ==
    IF ch \in AsciiLower THEN <<UpperLetters[IndexOf(ch, LowerLetters)]>>
    ELSE IF ch = LigFi THEN <<"F", "I">>
    ELSE IF ch = Eszett THEN <<"S", "S">>
    ELSE <<ch>>

RECURSIVE Flatten(_)
\* ''.join(parts)
Flatten(parts) ==
    IF parts = <<>> THEN <<>> ELSE Head(parts) \o Flatten(Tail(parts))

\* str.lower() and str.upper() of a string
LowerStr(s) == Flatten([k \in DOMAIN s |-> LowerChar(s[k])])
UpperStr(s) == Flatten([k \in DOMAIN s |-> UpperChar(s[k])])

RECURSIVE RStrip(_)
\* str.rstrip()
RStrip(s) ==
    IF s # <<>> /\ IsSpace(s[Len(s)]) THEN RStrip(SubSeq(s, 1, Len(s) - 1)) ELSE s

RECURSIVE LStrip(_)
\* str.lstrip()
LStrip(s) ==
    IF s # <<>> /\ IsSpace(s[1]) THEN LStrip(Tail(s)) ELSE s

\* str.strip()
Strip(s) == LStrip(RStrip(s))

\* needle in haystack, for strings
Contains(haystack, needle) ==
    \E k \in 0..(Len(haystack) - Len(needle)) :
        SubSeq(haystack, k + 1, k + Len(needle)) = needle

\* str.endswith
EndsWith(s, suffix) ==
    /\ Len(s) >= Len(suffix)
    /\ SubSeq(s, Len(s) - Len(suffix) + 1, Len(s)) = suffix

SeqsUpTo(S, n) == UNION {[1..k -> S] : k \in 0..n}

(***************************************************************************)
(* Text helpers.                                                           *)
(***************************************************************************)
SentenceTerminators == {".", "!", "?", ":"}

RECURSIVE SentenceCaseLoop(_, _, _)
\* the while loop of to_sentence_case from position k with the flag cap_next;
\* the result is the list chars from k on, its slots joined
SentenceCaseLoop(chars, k, cap_next) ==
    IF k > Len(chars) THEN <<>>
    ELSE LET ch == chars[k] IN
         IF cap_next /\ IsAlpha(ch)
         THEN UpperChar(ch) \o SentenceCaseLoop(chars, k + 1, FALSE)
         ELSE IF ch \in SentenceTerminators
         THEN <<ch>> \o SentenceCaseLoop(chars, k + 1, TRUE)
         ELSE <<ch>> \o SentenceCaseLoop(chars, k + 1, cap_next)

to_sentence_case(text) ==
    LET lowered == Flatten([k \in DOMAIN text |->
                       IF IsAlpha(text[k]) THEN LowerChar(text[k]) ELSE <<text[k]>>])
    IN  SentenceCaseLoop(lowered, 1, TRUE)

terminal == {".", "!", "?"}

\* the set literal of line 40: two one-character strings and two
\* three-character strings
closing_quotes ==
    { <<"\"">>, <<"'">>, <<LowQuote, AUmlaut, UGrave>>, <<LowQuote, AUmlaut, OCirc>> }

ensure_terminal_period(text) ==
    LET s == RStrip(text) IN
    IF s = <<>> THEN s
    ELSE LET last == s[Len(s)] IN
         IF last \in terminal THEN s
         ELSE IF <<last>> \in closing_quotes
         THEN IF Len(s) >= 2 /\ s[Len(s) - 1] \in terminal
              THEN s
              ELSE SubSeq(s, 1, Len(s) - 1) \o <<".">> \o <<last>>
         ELSE s \o <<".">>

(***************************************************************************)
(* Heading classifier.                                                     *)
(***************************************************************************)
HeadingMarker(digit) == <<"h", "e", "a", "d", "i", "n", "g", " ", digit>>
ShortMarker(digit) == <<"h", digit>>

\* the level-3 marker tested before the level-2 marker
guess_heading_level_h3_first(name, text) ==
    LET style == Strip(LowerStr(name))
        t == Strip(text)
    IN  IF t = <<>> THEN 0
        ELSE IF Contains(style, HeadingMarker("3")) \/ style = ShortMarker("3") THEN 2
        ELSE IF Contains(style, HeadingMarker("2")) \/ style = ShortMarker("2") THEN 1
        ELSE IF Contains(style, HeadingMarker("4")) \/ style = ShortMarker("4") THEN 3
        ELSE IF Contains(style, HeadingMarker("5")) \/ style = ShortMarker("5") THEN 4
        ELSE 0

guess_heading_level(name, text) ==
    LET style == Strip(LowerStr(name))
        t == Strip(text)
    IN  IF t = <<>> THEN 0
        ELSE IF Contains(style, HeadingMarker("2")) \/ style = ShortMarker("2") THEN 1
        ELSE IF Contains(style, HeadingMarker("3")) \/ style = ShortMarker("3") THEN 2
        ELSE IF Contains(style, HeadingMarker("4")) \/ style = ShortMarker("4") THEN 3
        ELSE IF Contains(style, HeadingMarker("5")) \/ style = ShortMarker("5") THEN 4
        ELSE 0

(***************************************************************************)
(* Layout helpers and renderers.  An output paragraph is a record: its     *)
(* text, its paragraph style, the bold and underline of its run ("none"    *)
(* when the run sets neither) and its w:ind element (<<>> when it has      *)
(* none, else <<left, hanging>> in twips).                                 *)
(***************************************************************************)
H5LeftTwips == 1080
H5HangingTwips == 360

_set_xml_indent(para, left_twips, hanging_twips) ==
    [para EXCEPT !.ind = <<left_twips, hanging_twips>>]

SpacerParagraph ==
    [text |-> <<NBSP>>, style |-> "Normal", bold |-> "none", underline |-> "none",
     ind |-> <<>>]

_add_visible_blank_line(doc) == Append(doc, SpacerParagraph)

\* the heading and its spacer put at the top of the document
add_heading_at_top(doc, text) ==
    <<[text |-> UpperStr(text), style |-> "Normal", bold |-> "true",
       underline |-> "true", ind |-> <<>>], SpacerParagraph>> \o doc

add_heading(doc, text) ==
    _add_visible_blank_line(Append(doc,
        [text |-> UpperStr(text), style |-> "Normal", bold |-> "true",
         underline |-> "true", ind |-> <<>>]))

add_subheading_all_caps(doc, text) ==
    _add_visible_blank_line(Append(doc,
        [text |-> UpperStr(text), style |-> "Normal", bold |-> "false",
         underline |-> "true", ind |-> <<>>]))

\* add_period ignored: the period always enforced
add_bullet_always_period(doc, text, indent, add_period) ==
    LET formatted == ensure_terminal_period(to_sentence_case(text))
        style == IF indent THEN "List Bullet 2" ELSE "List Bullet"
    IN  _add_visible_blank_line(Append(doc,
            [text |-> formatted, style |-> style, bold |-> "none",
             underline |-> "none", ind |-> <<>>]))

add_bullet(doc, text, indent, add_period) ==
    LET sentence == to_sentence_case(text)
        formatted == IF add_period THEN ensure_terminal_period(sentence) ELSE sentence
        style == IF indent THEN "List Bullet 2" ELSE "List Bullet"
    IN  _add_visible_blank_line(Append(doc,
            [text |-> formatted, style |-> style, bold |-> "none",
             underline |-> "none", ind |-> <<>>]))

add_h5_bullet(doc, text) ==
    LET formatted == ensure_terminal_period(to_sentence_case(text))
        p == [text |-> formatted, style |-> "H5Subbullet", bold |-> "none",
              underline |-> "none", ind |-> <<>>]
    IN  _add_visible_blank_line(Append(doc,
            _set_xml_indent(p, H5LeftTwips, H5HangingTwips)))

(***************************************************************************)
(* transform_docx.  A run of it is [i, out, counts]: the position of the   *)
(* paragraph loop, the output paragraphs and the counts.                   *)
(***************************************************************************)
TransformStart ==
    [i |-> 1, out |-> <<>>, counts |-> [H2 |-> 0, H3 |-> 0, H4 |-> 0, H5 |-> 0]]

\* = 1 in place of += 1
Increment_assign(c, key) == [c EXCEPT ![key] = 1]

Increment(c, key) == [c EXCEPT ![key] = @ + 1]

\* one iteration of `for para in src.paragraphs`
TransformIteration(run, paragraphs, flag) ==
    LET para == paragraphs[run.i]
        text == Strip(para.text)
        lvl == guess_heading_level(para.style, text)
        next == [run EXCEPT !.i = @ + 1]
    IN  IF text = <<>> THEN next
        ELSE IF lvl = 1
        THEN [next EXCEPT !.out = add_heading(@, text),
                          !.counts = Increment(@, "H2")]
        ELSE IF lvl = 2
        THEN [next EXCEPT !.out = add_subheading_all_caps(@, text),
                          !.counts = Increment(@, "H3")]
        ELSE IF lvl = 3
        THEN [next EXCEPT !.out = add_bullet(@, text, TRUE, flag),
                          !.counts = Increment(@, "H4")]
        ELSE IF lvl = 4
        THEN [next EXCEPT !.out = add_h5_bullet(@, text),
                          !.counts = Increment(@, "H5")]
        ELSE next

(***************************************************************************)
(* Output naming of the upload handler.                                    *)
(***************************************************************************)
INPUT == <<"I", "N", "P", "U", "T">>
OUTPUT == <<"O", "U", "T", "P", "U", "T">>
DotDocx == <<".", "d", "o", "c", "x">>
SuffixLen == 5

\* str.rfind of one character: 0 when absent (positions are 1-based)
RFind(s, ch) ==
    IF \E k \in DOMAIN s : s[k] = ch
    THEN CHOOSE k \in DOMAIN s : s[k] = ch /\ \A m \in DOMAIN s : s[m] = ch => m <= k
    ELSE 0

\* os.path.splitext(p)[0]: the last dot after the last separator splits,
\* unless only dots precede it in the file name
SplitextRoot(p) ==
    LET sepIndex == RFind(p, "/")
        dotIndex == RFind(p, ".")
    IN  IF dotIndex > sepIndex
           /\ \E k \in (sepIndex + 1)..(dotIndex - 1) : p[k] # "."
        THEN SubSeq(p, 1, dotIndex - 1)
        ELSE p

base_name(name) == RStrip(SplitextRoot(name))

\* the suffix compared without .upper()
out_name_case_sensitive(name) ==
    LET base == base_name(name) IN
    IF EndsWith(base, INPUT)
    THEN SubSeq(base, 1, Len(base) - SuffixLen) \o OUTPUT \o DotDocx
    ELSE base \o <<"_">> \o OUTPUT \o DotDocx

out_name(name) ==
    LET base == base_name(name) IN
    IF EndsWith(UpperStr(base), INPUT)
    THEN SubSeq(base, 1, Len(base) - SuffixLen) \o OUTPUT \o DotDocx
    ELSE base \o <<"_">> \o OUTPUT \o DotDocx

(***************************************************************************)
(* Inputs.                                                                 *)
(***************************************************************************)
Str_Heading2 == <<"H", "e", "a", "d", "i", "n", "g", " ", "2">>
Str_Heading3 == <<"H", "e", "a", "d", "i", "n", "g", " ", "3">>
Str_Heading4 == <<"H", "e", "a", "d", "i", "n", "g", " ", "4">>
Str_Heading5 == <<"H", "e", "a", "d", "i", "n", "g", " ", "5">>
Str_Normal == <<"N", "o", "r", "m", "a", "l">>

\* style names of the source paragraphs
SourceStyles == {Str_Heading2, Str_Heading3, Str_Heading4, Str_Heading5, Str_Normal}

\* texts of the source paragraphs: blank, plain with surrounding blanks,
\* two sentences ending in a period
SourceTexts == { <<" ">>, <<" ", "a", "B", " ">>, <<"a", ".", " ", "b", ".">> }

SourceParagraphs == [style : SourceStyles, text : SourceTexts]

\* the same without the two-sentence text
PlainParagraphs == [style : SourceStyles, text : { <<" ">>, <<" ", "a", "B", " ">> }]

\* uploaded file names of the transform runs
UploadNames == { <<"x">> \o DotDocx }

\* characters of the texts the helpers are called on
TextChars == {"a", "B", ".", ":", " ", "1", "\"", CurlyDQ, LigFi}

\* style labels and texts the classifier is called on
LabelCores ==
    { Str_Heading2, Str_Heading3, Str_Heading4, Str_Heading5, Str_Normal,
      <<"H", "E", "A", "D", "I", "N", "G", " ", "4">>,
      <<"h", "e", "a", "d", "i", "n", "g", "2">>,
      <<"h", "2">>, <<"H", "3">>, <<"h", "4">>, <<"H", "5">>, <<"h", "6">>,
      Str_Heading3 \o <<" ">> \o Str_Heading2,
      <<>> }
LabelAffixes == { <<>>, <<" ">>, <<"x">> }
ClassifyLabels == {pre \o core \o post : pre \in LabelAffixes, core \in LabelCores,
                                         post \in LabelAffixes}
ClassifyTexts == { <<>>, <<" ">>, <<NBSP, "\t">>, <<"a">>, <<" ", "a", " ">> }

\* file names the naming logic is run on
NameStems ==
    { INPUT, <<"i", "n", "p", "u", "t">>, <<"I", "n", "P", "u", "T">>,
      <<"I", "N", "P", "U">>, <<"N", "P", "U", "T">>, INPUT \o <<"S">>,
      INPUT \o <<"_">>, <<"I", "N", ".", "P", "U", "T">>, OUTPUT, <<>> }
NamePrefixChars == {"x", ".", " ", LigFi}
NameTrails == { <<>>, <<" ">> }
NameExtensions == { DotDocx, <<".", "D", "O", "C", "X">>, <<>> }
FileNames ==
    {pre \o stem \o trail \o ext : pre \in SeqsUpTo(NamePrefixChars, MaxPrefixLen),
                                   stem \in NameStems, trail \in NameTrails,
                                   ext \in NameExtensions}

(***************************************************************************)
(* Initial states.                                                         *)
(***************************************************************************)
TextIdle ==
    /\ arg = <<>>
    /\ arg_from = "input"
    /\ call = "none"
    /\ ret = <<>>

ClassifyIdle ==
    /\ style_name = <<>>
    /\ para_text = <<>>
    /\ level = -1

AltIdle == alt = TransformStart

HostStart(names, paragraphLists, flags) ==
    /\ uploaded \in [name : names, paragraphs : paragraphLists]
    /\ add_period_to_h4 \in flags
    /\ pc = "load"
    /\ i = 1
    /\ out = <<>>
    /\ counts = TransformStart.counts
    /\ ui = <<>>
    /\ download = <<>>

HostIdle ==
    /\ uploaded = [name |-> <<>>, paragraphs |-> <<>>]
    /\ add_period_to_h4 = TRUE
    /\ pc = "idle"
    /\ i = 1
    /\ out = <<>>
    /\ counts = TransformStart.counts
    /\ ui = <<>>
    /\ download = <<>>

\* one upload handled by the script
Init ==
    /\ HostStart(UploadNames, SeqsUpTo(PlainParagraphs, MaxParas), BOOLEAN)
    /\ TextIdle /\ ClassifyIdle /\ AltIdle

\* one upload, the file name varied
InitName ==
    /\ HostStart(FileNames, { <<>>, <<[style |-> Str_Heading2, text |-> <<"a">>]>> },
                 BOOLEAN)
    /\ TextIdle /\ ClassifyIdle /\ AltIdle

\* transform_docx called with either flag on the same document: the script's
\* call with the checkbox at its default, the other call without the flag
InitPair ==
    /\ HostStart(UploadNames, SeqsUpTo(SourceParagraphs, MaxParas), {TRUE})
    /\ TextIdle /\ ClassifyIdle /\ AltIdle

\* a text helper called on a string
InitText ==
    /\ arg \in SeqsUpTo(TextChars, MaxTextLen)
    /\ arg_from = "input"
    /\ call = "none"
    /\ ret = <<>>
    /\ HostIdle /\ ClassifyIdle /\ AltIdle

\* the classifier called on a label and a text
InitClassify ==
    /\ style_name \in ClassifyLabels
    /\ para_text \in ClassifyTexts
    /\ level = -1
    /\ HostIdle /\ TextIdle /\ AltIdle

(***************************************************************************)
(* The upload handler (lines 205-243) and transform_docx.                  *)
(***************************************************************************)
\* src_doc = Document(uploaded), and transform_docx up to its loop
LoadDocument ==
    /\ pc = "load"
    /\ pc' = "transform"
    /\ i' = TransformStart.i
    /\ out' = TransformStart.out
    /\ counts' = TransformStart.counts
    /\ UNCHANGED <<uploaded, add_period_to_h4, ui, download, textVars, classifyVars, alt>>

\* one iteration of the paragraph loop
TransformStep ==
    /\ pc = "transform"
    /\ i <= Len(uploaded.paragraphs)
    /\ LET r == TransformIteration([i |-> i, out |-> out, counts |-> counts],
                                   uploaded.paragraphs, add_period_to_h4)
       IN  /\ i' = r.i
           /\ out' = r.out
           /\ counts' = r.counts
    /\ UNCHANGED <<uploaded, add_period_to_h4, pc, ui, download, textVars, classifyVars, alt>>

\* return out, counts
TransformReturn ==
    /\ pc = "transform"
    /\ i > Len(uploaded.paragraphs)
    /\ pc' = "total"
    /\ UNCHANGED <<uploaded, add_period_to_h4, i, out, counts, ui, download,
                   textVars, classifyVars, alt>>

Total(c) == c.H2 + c.H3 + c.H4 + c.H5

\* the success branch taken whatever the total
CheckTotal_no_zero_check ==
    /\ pc = "total"
    /\ ui' = Append(ui, "success")
    /\ pc' = "save"
    /\ UNCHANGED <<uploaded, add_period_to_h4, i, out, counts, download,
                   textVars, classifyVars, alt>>

\* total = sum(counts.values()); the warning or the success message
CheckTotal ==
    /\ pc = "total"
    /\ IF Total(counts) = 0
       THEN /\ ui' = Append(ui, "warning")
            /\ pc' = "done"
       ELSE /\ ui' = Append(ui, "success")
            /\ pc' = "save"
    /\ UNCHANGED <<uploaded, add_period_to_h4, i, out, counts, download,
                   textVars, classifyVars, alt>>

\* out_doc.save(bio)
SaveOutput ==
    /\ pc = "save"
    /\ pc' = "offer"
    /\ UNCHANGED <<uploaded, add_period_to_h4, i, out, counts, ui, download,
                   textVars, classifyVars, alt>>

\* the naming logic, st.download_button and st.info
OfferDownload ==
    /\ pc = "offer"
    /\ download' = <<[file_name |-> out_name(uploaded.name), data |-> out]>>
    /\ ui' = ui \o <<"download_button", "info">>
    /\ pc' = "done"
    /\ UNCHANGED <<uploaded, add_period_to_h4, i, out, counts, textVars, classifyVars, alt>>

\* the calls that read, build or write a document
RaisingSteps == {"load", "transform", "save"}

\* one of them raises: except Exception as e: st.error(...); st.stop()
HandleException ==
    /\ pc \in RaisingSteps
    /\ ui' = Append(ui, "error")
    /\ pc' = "stopped"
    /\ UNCHANGED <<uploaded, add_period_to_h4, i, out, counts, download,
                   textVars, classifyVars, alt>>

Next ==
    \/ LoadDocument
    \/ TransformStep
    \/ TransformReturn
    \/ CheckTotal
    \/ SaveOutput
    \/ OfferDownload
    \/ HandleException

Spec == Init /\ [][Next]_vars

SpecName == InitName /\ [][Next]_vars

(***************************************************************************)
(* transform_docx on the same document with the other value of the flag,   *)
(* iteration by iteration beside the first call.                           *)
(***************************************************************************)
TransformBoth ==
    /\ pc = "transform"
    /\ i <= Len(uploaded.paragraphs)
    /\ alt.i = i
    /\ LET r == TransformIteration([i |-> i, out |-> out, counts |-> counts],
                                   uploaded.paragraphs, add_period_to_h4)
       IN  /\ i' = r.i
           /\ out' = r.out
           /\ counts' = r.counts
    /\ alt' = TransformIteration(alt, uploaded.paragraphs, ~add_period_to_h4)
    /\ UNCHANGED <<uploaded, add_period_to_h4, pc, ui, download, textVars, classifyVars>>

NextPair ==
    \/ LoadDocument
    \/ TransformBoth
    \/ TransformReturn

SpecPair == InitPair /\ [][NextPair]_vars

(***************************************************************************)
(* The text helpers called on their own.                                   *)
(***************************************************************************)
CallSentenceCase ==
    /\ call = "none"
    /\ ret' = to_sentence_case(arg)
    /\ call' = "to_sentence_case"
    /\ UNCHANGED <<arg, arg_from, hostVars, classifyVars, alt>>

CallEnsureTerminalPeriod ==
    /\ call = "none"
    /\ ret' = ensure_terminal_period(arg)
    /\ call' = "ensure_terminal_period"
    /\ UNCHANGED <<arg, arg_from, hostVars, classifyVars, alt>>

\* the return value becomes the argument of the next call, as in
\* ensure_terminal_period(to_sentence_case(text))
PassResult ==
    /\ call # "none"
    /\ arg_from = "input"
    /\ arg' = ret
    /\ arg_from' = call
    /\ call' = "none"
    /\ ret' = <<>>
    /\ UNCHANGED <<hostVars, classifyVars, alt>>

NextText ==
    \/ CallSentenceCase
    \/ CallEnsureTerminalPeriod
    \/ PassResult

SpecText == InitText /\ [][NextText]_vars

(***************************************************************************)
(* The classifier called on its own.                                       *)
(***************************************************************************)
CallGuessHeadingLevel ==
    /\ level = -1
    /\ level' = guess_heading_level(style_name, para_text)
    /\ UNCHANGED <<style_name, para_text, hostVars, textVars, alt>>

NextClassify == CallGuessHeadingLevel

SpecClassify == InitClassify /\ [][NextClassify]_vars

(***************************************************************************)
(* Vocabulary of the properties.                                           *)
(***************************************************************************)
\* the rendered blocks of a document: its paragraphs that are no spacers
Rendered(doc) == SelectSeq(doc, LAMBDA p : p # SpacerParagraph)

\* the source paragraphs the loop has gone through
Processed == SubSeq(uploaded.paragraphs, 1, i - 1)

\* a source paragraph with non-empty stripped text and a level other than 0
Classifiable(p) ==
    /\ Strip(p.text) # <<>>
    /\ guess_heading_level(p.style, Strip(p.text)) # 0

LevelOf(p) == guess_heading_level(p.style, Strip(p.text))

Returned == pc \in {"total", "save", "offer", "done"}

(***************************************************************************)
(* C1: after every prefix of the paragraph loop, and so after              *)
(* transform_docx has returned, the sum of the four counts equals the      *)
(* number of rendered (non-spacer) blocks of the output, and both equal    *)
(* the number of source paragraphs gone through whose stripped text is     *)
(* non-empty and whose heading level is not 0; on return every source      *)
(* paragraph has been gone through.                                        *)
(***************************************************************************)
C1_CountsMatchBlocks ==
    /\ Total(counts) = Len(Rendered(out))
    /\ Total(counts) = Cardinality({k \in DOMAIN Processed : Classifiable(Processed[k])})
    /\ Returned => i = Len(uploaded.paragraphs) + 1

C1_Witness ==
    /\ pc = "total"
    /\ Total(counts) = 2
    /\ Len(uploaded.paragraphs) = 3
    /\ counts.H4 = 2

(***************************************************************************)
(* C2: the rendered blocks are, in order, the source paragraphs gone       *)
(* through that have non-empty stripped text and a level H2..H5: as many   *)
(* blocks as such paragraphs, the k-th block carrying the text and the     *)
(* presentation of the k-th such paragraph.                                *)
(***************************************************************************)
DerivedFrom(block, p) ==
    LET t == Strip(p.text) IN
    CASE LevelOf(p) = 1 ->
            block.text = UpperStr(t) /\ block.bold = "true" /\ block.underline = "true"
      [] LevelOf(p) = 2 ->
            block.text = UpperStr(t) /\ block.bold = "false" /\ block.underline = "true"
      [] LevelOf(p) = 3 ->
            /\ block.text \in {to_sentence_case(t), ensure_terminal_period(to_sentence_case(t))}
            /\ block.style \in {"List Bullet", "List Bullet 2"}
      [] LevelOf(p) = 4 ->
            /\ block.text = ensure_terminal_period(to_sentence_case(t))
            /\ block.style = "H5Subbullet"
      [] OTHER -> FALSE

\* C2: as many rendered blocks as classifiable paragraphs gone through, the
\* k-th block derived from the k-th of them
C2_OrderPreserved ==
    LET blocks == Rendered(out)
        kept == SelectSeq(Processed, Classifiable)
    IN  /\ Len(blocks) = Len(kept)
        /\ \A k \in DOMAIN blocks : DerivedFrom(blocks[k], kept[k])

C2_Witness ==
    /\ pc = "total"
    /\ Len(uploaded.paragraphs) = 3
    /\ Len(Rendered(out)) = 2
    /\ LevelOf(uploaded.paragraphs[1]) = 4
    /\ LevelOf(uploaded.paragraphs[2]) = 0
    /\ LevelOf(uploaded.paragraphs[3]) = 1
    /\ Rendered(out)[2].bold = "true"

(***************************************************************************)
(* C3: to_sentence_case applied to a return value of to_sentence_case      *)
(* returns its argument (the conversion is idempotent).                    *)
(***************************************************************************)
C3_Idempotent ==
    (call = "to_sentence_case" /\ arg_from = "to_sentence_case") => ret = arg

(***************************************************************************)
(* C4: ensure_terminal_period on a string whose last character after       *)
(* rstrip is a closing quote (straight or curly, double or single)         *)
(* returns the stripped string when the character before the quote exists  *)
(* and is one of . ! ?, and otherwise the stripped string with a period    *)
(* inserted immediately before the quote.                                  *)
(***************************************************************************)
ClosingQuoteChars == {"\"", "'", CurlyDQ, CurlySQ}

\* C4: unchanged when . ! ? precedes the closing quote, else a period
\* inserted before the quote
C4_PeriodBeforeQuote ==
    LET s == RStrip(arg) IN
    (call = "ensure_terminal_period" /\ s # <<>> /\ s[Len(s)] \in ClosingQuoteChars) =>
        IF Len(s) >= 2 /\ s[Len(s) - 1] \in {".", "!", "?"}
        THEN ret = s
        ELSE ret = SubSeq(s, 1, Len(s) - 1) \o <<".", s[Len(s)]>>

(***************************************************************************)
(* C5: guess_heading_level returns 0 when the text trims to empty;         *)
(* otherwise it returns the level of the first marker, in the order H2,    *)
(* H3, H4, H5, that the label matches, and 0 when none matches.  A marker  *)
(* matches when the label contains "heading N" or is exactly "hN".  The    *)
(* label compared is stated twice: lower-cased only, and lower-cased with  *)
(* its surrounding whitespace removed.                                     *)
(***************************************************************************)
MarkerDigits == <<"2", "3", "4", "5">>

Matches(label, n) ==
    \/ Contains(label, HeadingMarker(MarkerDigits[n]))
    \/ label = ShortMarker(MarkerDigits[n])

FirstMatch(label, text) ==
    LET matching == {n \in DOMAIN MarkerDigits : Matches(label, n)} IN
    IF \A k \in DOMAIN text : IsSpace(text[k]) THEN 0
    ELSE IF matching = {} THEN 0
    ELSE CHOOSE n \in matching : \A m \in matching : n <= m

\* C5, the label lower-cased only: the returned level is the first match
C5_LowerCasedLabel ==
    level # -1 => level = FirstMatch(LowerStr(style_name), para_text)

\* C5, the label lower-cased and trimmed: the returned level is the first match
C5_TrimmedLabel ==
    level # -1 => level = FirstMatch(Strip(LowerStr(style_name)), para_text)

C5_Witness ==
    /\ level = 1
    /\ style_name = Str_Heading3 \o <<" ">> \o Str_Heading2

(***************************************************************************)
(* C6: the two calls of transform_docx on the same paragraphs, one with    *)
(* the flag and one without, have the same counts and the same H2, H3 and  *)
(* H5 blocks; an H5 block's text is                                        *)
(* ensure_terminal_period(to_sentence_case(text)); an H4 block's text is   *)
(* that in the call with the flag and to_sentence_case(text) in the call   *)
(* without it.                                                             *)
(***************************************************************************)
C6_FlagOnlyH4 ==
    LET withFlag == IF add_period_to_h4 THEN Rendered(out) ELSE Rendered(alt.out)
        without == IF add_period_to_h4 THEN Rendered(alt.out) ELSE Rendered(out)
        kept == SelectSeq(Processed, Classifiable)
    IN  /\ alt.i = i => counts = alt.counts
        /\ alt.i = i => Len(withFlag) = Len(kept) /\ Len(without) = Len(kept)
        /\ alt.i = i => \A k \in DOMAIN kept :
              LET t == Strip(kept[k].text) IN
              /\ LevelOf(kept[k]) # 3 => withFlag[k] = without[k]
              /\ LevelOf(kept[k]) = 4 =>
                    withFlag[k].text = ensure_terminal_period(to_sentence_case(t))
              /\ LevelOf(kept[k]) = 3 =>
                    /\ withFlag[k].text = ensure_terminal_period(to_sentence_case(t))
                    /\ without[k].text = to_sentence_case(t)

C6_Witness ==
    /\ pc = "total"
    /\ alt.i = i
    /\ counts.H4 = 1 /\ counts.H5 = 1 /\ counts.H2 = 1
    /\ \E k \in DOMAIN Rendered(out) : Rendered(out)[k].text # Rendered(alt.out)[k].text

(***************************************************************************)
(* C7: a download is offered only when the transform has returned, no      *)
(* exception was raised and the total of the counts is above zero; with a  *)
(* total of zero a warning is shown and no download is offered; when a     *)
(* step raises, the error is shown, the script stops and no download is    *)
(* offered.                                                                *)
(***************************************************************************)
Shown(element) == \E k \in DOMAIN ui : ui[k] = element

\* C7: download only after success with a positive total; warning on zero;
\* error and stop on an exception
C7_DownloadOnlyOnSuccess ==
    /\ download # <<>> =>
          /\ Total(counts) > 0
          /\ i = Len(uploaded.paragraphs) + 1
          /\ ~Shown("error") /\ ~Shown("warning")
          /\ Shown("download_button")
    /\ (pc = "done" /\ Total(counts) = 0) => Shown("warning")
    /\ pc \in {"save", "offer"} => (Total(counts) > 0 /\ Shown("success"))
    /\ Shown("warning") => (Total(counts) = 0 /\ download = <<>> /\ ~Shown("download_button"))
    /\ Shown("error") <=> pc = "stopped"
    /\ pc = "stopped" => (download = <<>> /\ ~Shown("download_button") /\ ~ENABLED Next)
    /\ (pc = "done" /\ Total(counts) > 0) => download # <<>>

C7_Witness ==
    /\ pc = "stopped"
    /\ Shown("success")
    /\ Total(counts) > 0

(***************************************************************************)
(* C8: the download's file name is built from the uploaded name without    *)
(* its extension and without trailing whitespace: when that base name      *)
(* ends, compared without regard to case, with INPUT, its last five        *)
(* characters are replaced by OUTPUT; otherwise _OUTPUT is appended; the   *)
(* rest of the base name is kept as it is; .docx follows.                  *)
(***************************************************************************)
\* full case folding of one character
FoldChar(ch) ==
    IF ch \in AsciiUpper THEN <<LowerLetters[IndexOf(ch, UpperLetters)]>>
    ELSE IF ch = LigFi THEN <<"f", "i">>
    ELSE IF ch = Eszett THEN <<"s", "s">>
    ELSE <<ch>>

FoldStr(s) == Flatten([k \in DOMAIN s |-> FoldChar(s[k])])

CaselessEndsWith(s, suffix) == EndsWith(FoldStr(s), FoldStr(suffix))

\* name = root \o ext, ext an extension: a dot, then characters other than
\* dots, after a root that is not made of dots only
IsExtensionSplit(name, cut) ==
    /\ name[cut] = "."
    /\ \A k \in (cut + 1)..Len(name) : name[k] # "."
    /\ \E k \in 1..(cut - 1) : name[k] # "."

WithoutExtension(name) ==
    IF \E cut \in DOMAIN name : IsExtensionSplit(name, cut)
    THEN SubSeq(name, 1, (CHOOSE cut \in DOMAIN name : IsExtensionSplit(name, cut)) - 1)
    ELSE name

TrimmedBase(name) ==
    LET root == WithoutExtension(name)
        keep == {k \in 0..Len(root) : \A m \in (k + 1)..Len(root) : IsSpace(root[m])}
    IN  SubSeq(root, 1, CHOOSE k \in keep : \A m \in keep : k <= m)

\* C8: INPUT suffix replaced by OUTPUT, else _OUTPUT appended, to the trimmed
\* base name
C8_OutputName ==
    download # <<>> =>
        LET base == TrimmedBase(uploaded.name)
            file_name == download[1].file_name
        IN  IF CaselessEndsWith(base, INPUT)
            THEN /\ Len(base) >= SuffixLen
                 /\ file_name = SubSeq(base, 1, Len(base) - SuffixLen) \o OUTPUT \o DotDocx
            ELSE file_name = base \o <<"_">> \o OUTPUT \o DotDocx

C8_Witness ==
    /\ download # <<>>
    /\ uploaded.name = <<"x", "I", "n", "P", "u", "T", " ">> \o DotDocx
    /\ download[1].file_name = <<"x">> \o OUTPUT \o DotDocx

(***************************************************************************)
(* C9: to_sentence_case(s) has the length of s, leaves every               *)
(* non-alphabetic character as it is, and turns an alphabetic character    *)
(* into its upper-case form when no alphabetic character lies between it   *)
(* and the start of the string or the last . ! ? : before it, and into     *)
(* its lower-case form otherwise.                                          *)
(***************************************************************************)
StartsSentence(s, k) ==
    \A m \in 1..(k - 1) :
        IsAlpha(s[m]) => \E n \in (m + 1)..(k - 1) : s[n] \in {".", "!", "?", ":"}

IsUpperCase(ch) == IsAlpha(ch) /\ UpperChar(ch) = <<ch>> /\ LowerChar(ch) # <<ch>>
IsLowerCase(ch) == IsAlpha(ch) /\ LowerChar(ch) = <<ch>> /\ UpperChar(ch) # <<ch>>

\* C9: same length, non-letters kept, upper case exactly at sentence starts
C9_SentenceCaseShape ==
    call = "to_sentence_case" =>
        /\ Len(ret) = Len(arg)
        /\ \A k \in DOMAIN arg :
              IF IsAlpha(arg[k])
              THEN IF StartsSentence(arg, k) THEN IsUpperCase(ret[k]) ELSE IsLowerCase(ret[k])
              ELSE ret[k] = arg[k]

(***************************************************************************)
(* C10: every H4 block has the single-level bullet style, every H5 block   *)
(* the nested bullet indent (text at 0.75 inch, hanging 0.25 inch), and    *)
(* H2 and H3 blocks have no indent; the second-level bullet presentation   *)
(* is used for H5 blocks only.                                             *)
(***************************************************************************)
C10_NestedOnlyForH5 ==
    LET blocks == Rendered(out)
        kept == SelectSeq(Processed, Classifiable)
    IN  \A k \in DOMAIN blocks :
            k \in DOMAIN kept =>
              CASE LevelOf(kept[k]) = 3 ->
                      blocks[k].style = "List Bullet" /\ blocks[k].ind = <<>>
                [] LevelOf(kept[k]) = 4 ->
                      blocks[k].ind = <<H5LeftTwips, H5HangingTwips>>
                [] OTHER ->
                      blocks[k].style = "Normal" /\ blocks[k].ind = <<>>

====
